---- MODULE Spec2Model ----
(***************************************************************************)
(* Model of the RFQ arena domain: the guardrail validator of               *)
(* crates/local-laws (validate_fill and RfqLocalLaws::validate) and the    *)
(* quote / fill lifecycle of crates/domain (the HTTP handlers of main.rs   *)
(* over the two-lock store of state.rs).                                   *)
(*                                                                         *)
(* Time.  chrono::Utc::now() is an instant with sub-second precision; the  *)
(* model counts it in ticks, TicksPerSec ticks to the second.  A u64 Unix  *)
(* timestamp is a number of whole seconds: DateTime::timestamp() truncates *)
(* an instant to seconds and DateTime::from_timestamp(s, 0) is the instant *)
(* s seconds, 0 nanoseconds.                                               *)
(***************************************************************************)
EXTENDS Integers, Sequences, FiniteSets, TLC

VARIABLES
    now,        \* the machine clock, chrono::Utc::now(), in ticks
    quotes,     \* DomainState.quotes   : QuoteId -> Quote (NoQuote = absent key)
    receipts,   \* DomainState.receipts : QuoteId -> Vec<FillReceipt>
    fill,       \* the fill_quote handler instances: position and locals
    lister,     \* the list_quotes handler instance: position and locals
    observed,   \* the body of the last get_quote response
    nfills,     \* number of fill requests received (the fresh FillAttempt ids)
    evalIn,     \* pure-function harness: the RfqLocalLawsInput under evaluation
    evalStep,   \* pure-function harness: evaluations performed so far
    evalWall,   \* pure-function harness: the machine clock of the evaluating host
    evalOut,    \* pure-function harness: results of successive validate_fill calls
    lawOut,     \* pure-function harness: result of RfqLocalLaws::validate
    twinIn,     \* pure-function harness: a second input, evaluated after evalIn
    elf         \* the proof-sandboxed program: position and committed public values

vars == <<now, quotes, receipts, fill, lister, observed, nfills,
          evalIn, evalStep, evalWall, evalOut, lawOut, twinIn, elf>>

lifeVars == <<now, quotes, receipts, fill, lister, observed, nfills>>
evalVars == <<evalIn, evalStep, evalWall, evalOut, lawOut, twinIn, elf>>

(***************************************************************************)
(* Bounds of the model.                                                    *)
(***************************************************************************)
TicksPerSec == 2      \* clock resolution below one second
MaxTime == 4          \* the clock stops advancing at this tick
MaxQuotes == 1        \* quotes ever created
NumFillers == 2       \* concurrent fill_quote handlers
MaxFills == 2         \* fill requests ever received
MaxEvidence == 2      \* attestations carried by one evaluated input

(***************************************************************************)
(* Program constants.                                                      *)
(***************************************************************************)
PlanckScale == 1000000000     \* size and price are scaled to smallest units
DvpLegs == 2                  \* legs of an atomic delivery-vs-payment

None == "none"

\* Option<f64> of QuorumNotMet.price_spread_percent: None, or Some of the spread
\* ((max - min) / min) * 100, held by its operands.
NoSpread == <<>>
SomeSpread(maxp, minp) == <<maxp - minp, minp>>

(***************************************************************************)
(* Instants and timestamps.                                                *)
(***************************************************************************)
\* DateTime::timestamp(): whole seconds of an instant (truncation).
Timestamp(t) == t \div TicksPerSec

\* DateTime::from_timestamp(secs, 0): the instant at a whole second.
FromTimestamp(secs) == secs * TicksPerSec

\* u64::saturating_sub
SaturatingSub(a, b) == IF a >= b THEN a - b ELSE 0

\* Vec::contains
Contains(v, x) == \E i \in 1..Len(v) : v[i] = x

(***************************************************************************)
(* QuoteConstraints (constraints.rs).  Sizes, debits and timestamps are    *)
(* u64; quorum_tolerance_percent and attestation prices are f64, held here *)
(* as the whole numbers they denote.                                       *)
(***************************************************************************)
\* QuoteConstraints::expiry_datetime.  The unwrap_or_else(Utc::now) branch is
\* taken only for timestamps outside chrono's range, which lies far beyond
\* every timestamp of the model.
ExpiryDatetime(c) == FromTimestamp(c.expiry_timestamp)

(***************************************************************************)
(* binary64 arithmetic of the spread test                                  *)
(*     ((max_price - min_price) / min_price) * 100.0 > tolerance           *)
(* for whole-number prices and tolerances.  The quotient and the product   *)
(* are each rounded to nearest; for operands this small the rounded result *)
(* can differ from the exact one only by a last-place error, which decides *)
(* the comparison only when the exact spread equals the tolerance.         *)
(* F64RoundsUp lists the (difference, minimum) pairs of the model's price  *)
(* domain whose computed spread lies above the exact one:                  *)
(*     (7.0 / 100.0) * 100.0 = 7.000000000000001.                          *)
(***************************************************************************)
F64RoundsUp == { <<7, 100>> }

F64SpreadGt(maxp, minp, tol) ==
    LET d == maxp - minp
    IN  \/ d * 100 > tol * minp
        \/ d * 100 = tol * minp /\ <<d, minp>> \in F64RoundsUp

\* iter().fold(f64::INFINITY, f64::min) over a non-empty vector of prices
RECURSIVE FoldMin(_, _)
FoldMin(ps, i) ==
    IF i = Len(ps) THEN ps[i]
    ELSE LET r == FoldMin(ps, i + 1) IN IF ps[i] < r THEN ps[i] ELSE r

RECURSIVE FoldMax(_, _)
FoldMax(ps, i) ==
    IF i = Len(ps) THEN ps[i]
    ELSE LET r == FoldMax(ps, i + 1) IN IF ps[i] > r THEN ps[i] ELSE r

(***************************************************************************)
(* Results.  Ok(()) and Err(RejectionReason): the variant and its fields.  *)
(***************************************************************************)
Ok == [code |-> "Ok", detail |-> <<>>]
Reject(code, detail) == [code |-> code, detail |-> detail]

(***************************************************************************)
(* validate_feed_evidence_detailed (lib.rs 230-289)                        *)
(***************************************************************************)
\* The for loop over the attestations, from index i: the first attestation
\* that fails, its source test before its freshness test.
RECURSIVE FeedLoopDetailed(_, _)
FeedLoopDetailed(input, i) ==
    LET c  == input.constraints
        ev == input.feed_evidence
    IN  IF i > Len(ev) THEN Ok
        ELSE IF Len(c.allowed_sources) # 0 /\ ~Contains(c.allowed_sources, ev[i].source)
        THEN Reject("UnauthorizedSource", <<ev[i].source, c.allowed_sources>>)
        ELSE IF SaturatingSub(input.current_timestamp, ev[i].timestamp) > c.max_staleness_secs
        THEN Reject("StaleFeed", <<ev[i].source, ev[i].timestamp,
                                   input.current_timestamp, c.max_staleness_secs>>)
        ELSE FeedLoopDetailed(input, i + 1)

ValidPrices(input) == [i \in 1..Len(input.feed_evidence) |-> input.feed_evidence[i].price]

(***************************************************************************)
(* Variants of validate_feed_evidence_detailed with one plausible slip.    *)
(***************************************************************************)
RECURSIVE FeedLoopWith(_, _, _)
FeedLoopWith(input, i, slip) ==
    LET c   == input.constraints
        ev  == input.feed_evidence
        age == IF slip = "wrapping-age" /\ ev[i].timestamp > input.current_timestamp
               THEN 2 ^ 30
               ELSE SaturatingSub(input.current_timestamp, ev[i].timestamp)
    IN  IF i > Len(ev) THEN Ok
        ELSE IF /\ slip # "any-source"
                /\ Len(c.allowed_sources) # 0 /\ ~Contains(c.allowed_sources, ev[i].source)
        THEN Reject("UnauthorizedSource", <<ev[i].source, c.allowed_sources>>)
        ELSE IF age > c.max_staleness_secs
        THEN Reject("StaleFeed", <<ev[i].source, ev[i].timestamp,
                                   input.current_timestamp, c.max_staleness_secs>>)
        ELSE FeedLoopWith(input, i + 1, slip)

FeedWith(input, slip) ==
    LET c     == input.constraints
        ev    == input.feed_evidence
        short == Len(ev) < c.quorum_count
        count == Reject("QuorumNotMet",
                        <<Len(ev), c.quorum_count, NoSpread, c.quorum_tolerance_percent>>)
        loop  == FeedLoopWith(input, 1, slip)
    IN  IF short /\ slip # "count-last" THEN count
        ELSE IF loop # Ok THEN loop
        ELSE IF short THEN count
        ELSE IF Len(ev) >= 2
        THEN LET ps   == ValidPrices(input)
                 minp == FoldMin(ps, 1)
                 maxp == FoldMax(ps, 1)
             IN  IF minp > 0 /\ F64SpreadGt(maxp, minp, c.quorum_tolerance_percent)
                 THEN Reject("QuorumNotMet",
                             <<Len(ps), c.quorum_count, SomeSpread(maxp, minp),
                               c.quorum_tolerance_percent>>)
                 ELSE Ok
        ELSE Ok

\* The age of an attestation computed with a wrapping subtraction.
ValidateFeedWrappingAge(input) == FeedWith(input, "wrapping-age")
\* The source allowlist never consulted.
ValidateFeedAnySource(input) == FeedWith(input, "any-source")
\* The quorum count tested after the attestations instead of before them.
ValidateFeedCountLast(input) == FeedWith(input, "count-last")

ValidateFeedEvidenceDetailed(input) ==
    LET c  == input.constraints
        ev == input.feed_evidence
    IN  IF Len(ev) < c.quorum_count
        THEN Reject("QuorumNotMet", <<Len(ev), c.quorum_count, NoSpread, c.quorum_tolerance_percent>>)
        ELSE LET loop == FeedLoopDetailed(input, 1)
             IN  IF loop # Ok THEN loop
                 ELSE IF Len(ev) >= 2
                 THEN LET ps   == ValidPrices(input)
                          minp == FoldMin(ps, 1)
                          maxp == FoldMax(ps, 1)
                      IN  IF minp > 0 /\ F64SpreadGt(maxp, minp, c.quorum_tolerance_percent)
                          THEN Reject("QuorumNotMet",
                                      <<Len(ps), c.quorum_count, SomeSpread(maxp, minp),
                                        c.quorum_tolerance_percent>>)
                          ELSE Ok
                 ELSE Ok

(***************************************************************************)
(* Variants of validate_fill with one plausible slip each.                 *)
(***************************************************************************)
\* The debit bound tested before the size bound.
ValidateFillDebitFirst(input, wall) ==
    LET c == input.constraints
    IN  IF input.current_timestamp > c.expiry_timestamp
        THEN Reject("QuoteExpired", <<ExpiryDatetime(c), wall>>)
        ELSE IF Len(c.allowed_takers) # 0 /\ ~Contains(c.allowed_takers, input.taker_owner_id)
        THEN Reject("UnauthorizedTaker", <<input.taker_owner_id, c.allowed_takers>>)
        ELSE IF input.fill_price > c.max_debit
        THEN Reject("PriceExceedsLimit", <<input.fill_price, c.max_debit>>)
        ELSE IF input.fill_size > c.max_fill_size
        THEN Reject("SizeExceedsMax", <<input.fill_size, c.max_fill_size>>)
        ELSE LET feed == ValidateFeedEvidenceDetailed(input)
             IN  IF feed # Ok THEN feed
                 ELSE IF c.require_atomic_dvp /\ input.transfer_leg_count # DvpLegs
                 THEN Reject("InvalidTransferPattern", <<DvpLegs, input.transfer_leg_count>>)
                 ELSE IF c.no_side_payments /\ input.has_extra_transfers
                 THEN Reject("SidePaymentDetected", <<>>)
                 ELSE Ok

\* The side-payment test left out.
ValidateFillNoSidePayment(input, wall) ==
    LET c == input.constraints
    IN  IF input.current_timestamp > c.expiry_timestamp
        THEN Reject("QuoteExpired", <<ExpiryDatetime(c), wall>>)
        ELSE IF Len(c.allowed_takers) # 0 /\ ~Contains(c.allowed_takers, input.taker_owner_id)
        THEN Reject("UnauthorizedTaker", <<input.taker_owner_id, c.allowed_takers>>)
        ELSE IF input.fill_size > c.max_fill_size
        THEN Reject("SizeExceedsMax", <<input.fill_size, c.max_fill_size>>)
        ELSE IF input.fill_price > c.max_debit
        THEN Reject("PriceExceedsLimit", <<input.fill_price, c.max_debit>>)
        ELSE LET feed == ValidateFeedEvidenceDetailed(input)
             IN  IF feed # Ok THEN feed
                 ELSE IF c.require_atomic_dvp /\ input.transfer_leg_count # DvpLegs
                 THEN Reject("InvalidTransferPattern", <<DvpLegs, input.transfer_leg_count>>)
                 ELSE Ok

(***************************************************************************)
(* validate_fill (lib.rs 171-227).  wall is the value chrono::Utc::now()   *)
(* returns on the evaluating host when the expiry rejection is built.      *)
(***************************************************************************)
\* validate_fill with the comparison of one check changed.
ValidateFillWith(input, wall, slip) ==
    LET c == input.constraints
        expired == IF slip = "expiry-inclusive"
                   THEN input.current_timestamp >= c.expiry_timestamp
                   ELSE input.current_timestamp > c.expiry_timestamp
        barred  == IF slip = "empty-takers-bar"
                   THEN ~Contains(c.allowed_takers, input.taker_owner_id)
                   ELSE Len(c.allowed_takers) # 0 /\ ~Contains(c.allowed_takers, input.taker_owner_id)
        big     == IF slip = "size-inclusive"
                   THEN input.fill_size >= c.max_fill_size
                   ELSE input.fill_size > c.max_fill_size
        dear    == IF slip = "debit-inclusive"
                   THEN input.fill_price >= c.max_debit
                   ELSE input.fill_price > c.max_debit
        shape   == IF slip = "legs-at-most"
                   THEN input.transfer_leg_count > DvpLegs
                   ELSE input.transfer_leg_count # DvpLegs
        side    == IF slip = "side-always"
                   THEN input.has_extra_transfers
                   ELSE c.no_side_payments /\ input.has_extra_transfers
        alien   == /\ slip = "asset-checked"
                   /\ \E i \in DOMAIN input.feed_evidence :
                         ~Contains(c.allowed_assets, input.feed_evidence[i].asset)
        feed    == IF alien
                   THEN Reject("UnauthorizedSource", <<"asset", c.allowed_sources>>)
                   ELSE ValidateFeedEvidenceDetailed(input)
    IN  IF expired THEN Reject("QuoteExpired", <<ExpiryDatetime(c), wall>>)
        ELSE IF barred THEN Reject("UnauthorizedTaker", <<input.taker_owner_id, c.allowed_takers>>)
        ELSE IF big THEN Reject("SizeExceedsMax", <<input.fill_size, c.max_fill_size>>)
        ELSE IF dear THEN Reject("PriceExceedsLimit", <<input.fill_price, c.max_debit>>)
        ELSE IF feed # Ok THEN feed
        ELSE IF c.require_atomic_dvp /\ shape
        THEN Reject("InvalidTransferPattern", <<DvpLegs, input.transfer_leg_count>>)
        ELSE IF side THEN Reject("SidePaymentDetected", <<>>)
        ELSE Ok

ValidateFillExpiryInclusive(input, wall) == ValidateFillWith(input, wall, "expiry-inclusive")
ValidateFillEmptyTakersBar(input, wall) == ValidateFillWith(input, wall, "empty-takers-bar")
ValidateFillSizeInclusive(input, wall) == ValidateFillWith(input, wall, "size-inclusive")
ValidateFillDebitInclusive(input, wall) == ValidateFillWith(input, wall, "debit-inclusive")
ValidateFillLegsAtMost(input, wall) == ValidateFillWith(input, wall, "legs-at-most")
ValidateFillSideAlways(input, wall) == ValidateFillWith(input, wall, "side-always")
ValidateFillAssetChecked(input, wall) == ValidateFillWith(input, wall, "asset-checked")

ValidateFill(input, wall) ==
    LET c == input.constraints
    IN  IF input.current_timestamp > c.expiry_timestamp
        THEN Reject("QuoteExpired", <<ExpiryDatetime(c), wall>>)
        ELSE IF Len(c.allowed_takers) # 0 /\ ~Contains(c.allowed_takers, input.taker_owner_id)
        THEN Reject("UnauthorizedTaker", <<input.taker_owner_id, c.allowed_takers>>)
        ELSE IF input.fill_size > c.max_fill_size
        THEN Reject("SizeExceedsMax", <<input.fill_size, c.max_fill_size>>)
        ELSE IF input.fill_price > c.max_debit
        THEN Reject("PriceExceedsLimit", <<input.fill_price, c.max_debit>>)
        ELSE LET feed == ValidateFeedEvidenceDetailed(input)
             IN  IF feed # Ok THEN feed
                 ELSE IF c.require_atomic_dvp /\ input.transfer_leg_count # DvpLegs
                 THEN Reject("InvalidTransferPattern", <<DvpLegs, input.transfer_leg_count>>)
                 ELSE IF c.no_side_payments /\ input.has_extra_transfers
                 THEN Reject("SidePaymentDetected", <<>>)
                 ELSE Ok

(***************************************************************************)
(* RfqLocalLaws::validate (lib.rs 42-109) and validate_feed_evidence       *)
(* (lib.rs 112-166): the implementation run while proving.  Its error is a *)
(* LocalLawsError holding one formatted message; the message is held as    *)
(* the head of its format string followed by the values it formats.        *)
(***************************************************************************)
LawsOk == [code |-> "Ok", detail |-> <<>>]
LocalLawsError(msg) == [code |-> "LocalLawsError", detail |-> msg]

RECURSIVE FeedLoop(_, _)
FeedLoop(input, i) ==
    LET c  == input.constraints
        ev == input.feed_evidence
    IN  IF i > Len(ev) THEN LawsOk
        ELSE IF Len(c.allowed_sources) # 0 /\ ~Contains(c.allowed_sources, ev[i].source)
        THEN LocalLawsError(<<"Source not in allowlist", ev[i].source, c.allowed_sources>>)
        ELSE LET age == SaturatingSub(input.current_timestamp, ev[i].timestamp)
             IN  IF age > c.max_staleness_secs
                 THEN LocalLawsError(<<"Feed data is stale", ev[i].source, age,
                                       c.max_staleness_secs>>)
                 ELSE FeedLoop(input, i + 1)

ValidateFeedEvidence(input) ==
    LET c  == input.constraints
        ev == input.feed_evidence
    IN  IF Len(ev) < c.quorum_count
        THEN LocalLawsError(<<"Quorum not met", Len(ev), c.quorum_count>>)
        ELSE LET loop == FeedLoop(input, 1)
             IN  IF loop # LawsOk THEN loop
                 ELSE IF Len(ev) >= 2
                 THEN LET ps   == ValidPrices(input)
                          minp == FoldMin(ps, 1)
                          maxp == FoldMax(ps, 1)
                      IN  IF minp > 0 /\ F64SpreadGt(maxp, minp, c.quorum_tolerance_percent)
                          THEN LocalLawsError(<<"Price spread exceeds tolerance",
                                                SomeSpread(maxp, minp),
                                                c.quorum_tolerance_percent>>)
                          ELSE LawsOk
                 ELSE LawsOk

\* The same arms as Validate, with the transfer-pattern arm left out.
ValidateNoShape(input) ==
    LET c == input.constraints
    IN  IF input.current_timestamp > c.expiry_timestamp
        THEN LocalLawsError(<<"Quote expired at timestamp", c.expiry_timestamp,
                              input.current_timestamp>>)
        ELSE IF Len(c.allowed_takers) # 0 /\ ~Contains(c.allowed_takers, input.taker_owner_id)
        THEN LocalLawsError(<<"Taker not in allowlist", input.taker_owner_id, c.allowed_takers>>)
        ELSE IF input.fill_size > c.max_fill_size
        THEN LocalLawsError(<<"Fill size exceeds max", input.fill_size, c.max_fill_size>>)
        ELSE IF input.fill_price > c.max_debit
        THEN LocalLawsError(<<"Fill price exceeds max debit", input.fill_price, c.max_debit>>)
        ELSE LET feed == ValidateFeedEvidence(input)
             IN  IF feed # LawsOk THEN feed
                 ELSE IF c.no_side_payments /\ input.has_extra_transfers
                 THEN LocalLawsError(<<"Side-payments detected">>)
                 ELSE LawsOk

Validate(input) ==
    LET c == input.constraints
    IN  IF input.current_timestamp > c.expiry_timestamp
        THEN LocalLawsError(<<"Quote expired at timestamp", c.expiry_timestamp,
                              input.current_timestamp>>)
        ELSE IF Len(c.allowed_takers) # 0 /\ ~Contains(c.allowed_takers, input.taker_owner_id)
        THEN LocalLawsError(<<"Taker not in allowlist", input.taker_owner_id, c.allowed_takers>>)
        ELSE IF input.fill_size > c.max_fill_size
        THEN LocalLawsError(<<"Fill size exceeds max", input.fill_size, c.max_fill_size>>)
        ELSE IF input.fill_price > c.max_debit
        THEN LocalLawsError(<<"Fill price exceeds max debit", input.fill_price, c.max_debit>>)
        ELSE LET feed == ValidateFeedEvidence(input)
             IN  IF feed # LawsOk THEN feed
                 ELSE IF c.require_atomic_dvp /\ input.transfer_leg_count # DvpLegs
                 THEN LocalLawsError(<<"Atomic DvP required", DvpLegs,
                                       input.transfer_leg_count>>)
                 ELSE IF c.no_side_payments /\ input.has_extra_transfers
                 THEN LocalLawsError(<<"Side-payments detected">>)
                 ELSE LawsOk

(***************************************************************************)
(* Evaluation harness: one RfqLocalLawsInput drawn from bounded domains,   *)
(* evaluated twice by validate_fill, at successive instants of the host's  *)
(* clock, and once by RfqLocalLaws::validate.                              *)
(***************************************************************************)
EvalConstraints ==
    [ quote_id : {1}, max_debit : {2}, min_credit : {None},
      expiry_timestamp : {2},
      allowed_sources : { <<>>, <<"FeedA", "FeedB">> },
      max_staleness_secs : {1},
      quorum_count : {1, 2},
      quorum_tolerance_percent : {7},
      allowed_takers : { <<>>, <<"takerA">> },
      allowed_assets : { <<"dETH">> },
      require_atomic_dvp : BOOLEAN, no_side_payments : BOOLEAN,
      nonce : {1}, max_fill_size : {2} ]

EvalAttestations ==
    [ source : {"FeedA", "FeedMallory"}, asset : {"dETH"},
      price : {0, 100, 107, 108}, timestamp : {0, 1, 4}, signature : {"sig"} ]

EvalEvidence == UNION { [1..n -> EvalAttestations] : n \in 0..MaxEvidence }

EvalInputs ==
    [ constraints : EvalConstraints,
      taker_owner_id : {"takerA", "takerB"},
      fill_size : {2, 3}, fill_price : {2, 3},
      feed_evidence : EvalEvidence,
      current_timestamp : {2, 3},
      transfer_leg_count : {0, 1, 2, 3},
      has_extra_transfers : BOOLEAN ]

\* An absent key of the quote map; a validator that has not run.
NoQuote == [status |-> "Absent"]
NotRun == [code |-> "NotRun", detail |-> <<>>]

LifeIdle ==
    /\ now = 0
    /\ quotes = [q \in 1..MaxQuotes |-> NoQuote]
    /\ receipts = [q \in 1..MaxQuotes |-> <<>>]
    /\ fill = [p \in 1..NumFillers |-> [pc |-> "idle"]]
    /\ lister = [pc |-> "idle"]
    /\ observed = [id |-> 0, status |-> "none", late |-> FALSE]
    /\ nfills = 0

\* The sandboxed program before it has read its input.
ElfStart == [pc |-> "read", public |-> <<>>]

EvalInit ==
    /\ LifeIdle
    /\ evalIn \in EvalInputs
    /\ evalStep = 0
    /\ evalWall = 0
    /\ evalOut = <<>>
    /\ lawOut = NotRun
    /\ twinIn = None
    /\ elf = ElfStart

\* One call of validate_fill on the input; the host's clock moves on afterwards.
EvalValidateFill ==
    /\ evalStep < 2
    /\ evalOut' = Append(evalOut, ValidateFill(evalIn, evalWall))
    /\ evalWall' = evalWall + 1
    /\ evalStep' = evalStep + 1
    /\ UNCHANGED <<evalIn, lawOut, twinIn, elf>>
    /\ UNCHANGED lifeVars

\* The call of RfqLocalLaws::validate on the same input.
EvalValidate ==
    /\ evalStep = 2
    /\ lawOut' = Validate(evalIn)
    /\ evalStep' = 3
    /\ UNCHANGED <<evalIn, evalWall, evalOut, twinIn, elf>>
    /\ UNCHANGED lifeVars

EvalNext == EvalValidateFill \/ EvalValidate

SpecEval == EvalInit /\ [][EvalNext]_vars

(***************************************************************************)
(* The proof-sandboxed program (local-laws-elf/src/main.rs 21-36), run on  *)
(* the input of the harness.                                               *)
(***************************************************************************)
\* sp1_zkvm::io::read
ElfRead ==
    /\ elf.pc = "read"
    /\ elf' = [elf EXCEPT !.pc = "validate"]
    /\ UNCHANGED <<evalIn, evalStep, evalWall, evalOut, lawOut, twinIn>>
    /\ UNCHANGED lifeVars

\* validate_fill(&input) with its result passed on whatever it is.
ElfValidateUnchecked ==
    /\ elf.pc = "validate"
    /\ elf' = [elf EXCEPT !.pc = "commit_quote_id"]
    /\ UNCHANGED <<evalIn, evalStep, evalWall, evalOut, lawOut, twinIn>>
    /\ UNCHANGED lifeVars

\* validate_fill(&input).expect(..): an Err panics and the execution ends.
ElfValidate ==
    /\ elf.pc = "validate"
    /\ elf' = [elf EXCEPT !.pc = IF ValidateFill(evalIn, evalWall) = Ok
                                 THEN "commit_quote_id" ELSE "panicked"]
    /\ UNCHANGED <<evalIn, evalStep, evalWall, evalOut, lawOut, twinIn>>
    /\ UNCHANGED lifeVars

\* commit_slice(&input.constraints.quote_id)
ElfCommitQuoteId ==
    /\ elf.pc = "commit_quote_id"
    /\ elf' = [pc |-> "commit_success",
               public |-> Append(elf.public, evalIn.constraints.quote_id)]
    /\ UNCHANGED <<evalIn, evalStep, evalWall, evalOut, lawOut, twinIn>>
    /\ UNCHANGED lifeVars

\* commit(&1u8)
ElfCommitSuccess ==
    /\ elf.pc = "commit_success"
    /\ elf' = [pc |-> "done", public |-> Append(elf.public, 1)]
    /\ UNCHANGED <<evalIn, evalStep, evalWall, evalOut, lawOut, twinIn>>
    /\ UNCHANGED lifeVars

ElfNext == ElfRead \/ ElfValidate \/ ElfCommitQuoteId \/ ElfCommitSuccess

SpecElf == EvalInit /\ [][ElfNext]_vars

(***************************************************************************)
(* Two inputs that differ in fields validate_fill does not examine: the    *)
(* input of the harness and a copy of it with one such field changed.      *)
(***************************************************************************)
OtherSignature == "forged"
OtherAsset == "dBTC"

\* The ways a copy of an input may differ from it in uninspected fields: in
\* the signature or the asset of attestation i, in the min_credit, nonce,
\* allowed_assets or quote_id of the constraints, or in all of these.
TwinKinds(input) ==
    ({"signature", "asset"} \X DOMAIN input.feed_evidence)
    \cup ({"min_credit", "nonce", "allowed_assets", "quote_id", "all"} \X {0})

Twin(input, kind) ==
    LET ev == input.feed_evidence
    IN  CASE kind[1] = "signature" ->
                [input EXCEPT !.feed_evidence[kind[2]].signature = OtherSignature]
          [] kind[1] = "asset" ->
                [input EXCEPT !.feed_evidence[kind[2]].asset = OtherAsset]
          [] kind[1] = "min_credit" -> [input EXCEPT !.constraints.min_credit = 5]
          [] kind[1] = "nonce" -> [input EXCEPT !.constraints.nonce = 2]
          [] kind[1] = "allowed_assets" -> [input EXCEPT !.constraints.allowed_assets = <<>>]
          [] kind[1] = "quote_id" -> [input EXCEPT !.constraints.quote_id = 2]
          [] kind[1] = "all" ->
                [input EXCEPT
                   !.constraints.min_credit = 5, !.constraints.nonce = 2,
                   !.constraints.allowed_assets = <<>>, !.constraints.quote_id = 2,
                   !.feed_evidence = [i \in DOMAIN ev |->
                        [ev[i] EXCEPT !.signature = OtherSignature, !.asset = OtherAsset]]]

\* validate_fill on the input of the harness.
TwinFirst ==
    /\ evalStep = 0
    /\ evalOut' = <<ValidateFill(evalIn, evalWall)>>
    /\ evalStep' = 1
    /\ UNCHANGED <<evalIn, evalWall, lawOut, twinIn, elf>>
    /\ UNCHANGED lifeVars

\* validate_fill on one of its twins.
TwinSecond ==
    /\ evalStep = 1
    /\ \E kind \in TwinKinds(evalIn) :
          /\ twinIn' = Twin(evalIn, kind)
          /\ evalOut' = Append(evalOut, ValidateFill(Twin(evalIn, kind), evalWall))
    /\ evalStep' = 2
    /\ UNCHANGED <<evalIn, evalWall, lawOut, elf>>
    /\ UNCHANGED lifeVars

TwinNext == TwinFirst \/ TwinSecond

SpecTwin == EvalInit /\ [][TwinNext]_vars

(***************************************************************************)
(* The domain server (main.rs, state.rs).                                  *)
(*                                                                         *)
(* A Quote is held with the fields the handlers read again: id, spec,      *)
(* constraints, status, expires_at and maker_owner_id.  created_at,        *)
(* maker_vault_address and original_text are written once by create_quote  *)
(* and only echoed in responses.  A FillReceipt is held without its        *)
(* receipt_id and generated_at stamps, a FillAttempt without attempted_at. *)
(* The handlers health_check and get_receipts read and change nothing.     *)
(*                                                                         *)
(* Every handler runs as a task of a multi-threaded runtime: one step of   *)
(* the model is one access to the store (one lock acquisition) or one      *)
(* reading of the clock together with the local computation that follows.  *)
(***************************************************************************)
\* The ids of the quote map: one per quote that is ever created.
QuoteIds == DOMAIN quotes
Fillers == 1..NumFillers

\* What the compiler may return for a quote text (an LLM call): the spec and
\* the guardrails, here after the test fixtures of lib.rs and e2e_proof_flow.rs.
CompiledSpec == [asset |-> "dETH", currency |-> "USDD"]

CompiledConstraints ==
    [ quote_id : {0}, max_debit : {2 * PlanckScale}, min_credit : {None},
      expiry_timestamp : {1},
      allowed_sources : { <<"FeedA", "FeedB">> },
      max_staleness_secs : {5},
      quorum_count : {2},
      quorum_tolerance_percent : {7},
      allowed_takers : { <<>> },
      allowed_assets : { <<"dETH">> },
      require_atomic_dvp : {TRUE}, no_side_payments : {TRUE},
      nonce : {1}, max_fill_size : {PlanckScale} ]

Makers == {"makerM"}

\* The bodies of fill requests: FillRequest of fill.rs.
GoodEvidence ==
    << [source |-> "FeedA", asset |-> "dETH", price |-> 100, timestamp |-> 0, signature |-> "sig"],
       [source |-> "FeedB", asset |-> "dETH", price |-> 100, timestamp |-> 0, signature |-> "sig"] >>

FillRequests ==
    { [taker_owner_id |-> "takerA", size |-> sp[1], price |-> sp[2],
       feed_evidence |-> GoodEvidence] : sp \in {<<1, 1>>, <<1, 2>>, <<2, 1>>} }

\* What submit_fill_to_delta returns: one of its early-return strings, or
\* the formatted SDL hash (also returned when proving fails or times out).
SubmitOutcomes ==
    {"error_nonce", "error_sign", "error_apply", "no_changes", "error_submit", "sdl_hash"}

\* `x as u64` of a whole-valued f64: saturating at zero.
AsU64(x) == IF x < 0 THEN 0 ELSE x

\* Quote::is_active and Quote::is_expired (quote.rs 84-91), at clock reading t.
IsActive(q, t) == q.status = "Active" /\ t < q.expires_at
IsExpired(q, t) == t >= q.expires_at

\* status_to_string (api_types.rs 109-116)
StatusToString(status) ==
    CASE status = "Active" -> "active"
      [] status = "Filled" -> "filled"
      [] status = "Expired" -> "expired"
      [] status = "Cancelled" -> "cancelled"

\* add_receipt replacing the list instead of pushing to it.
StorePushReplacing(id, r) == [receipts EXCEPT ![id] = <<r>>]

\* update_quote writing the quote under every key of the map.
StoreInsertShared(q) == [id \in DOMAIN quotes |-> q]

\* DomainState::get_quote, add_quote / update_quote, add_receipt (state.rs).
StoreGet(id) == quotes[id]
StoreInsert(q) == [quotes EXCEPT ![q.id] = q]
StorePush(id, r) == [receipts EXCEPT ![id] = Append(@, r)]

\* DomainState::get_all_quotes: every stored quote, cloned.
GetAllQuotes == { id \in QuoteIds : quotes[id].status # "Absent" }

\* FillReceipt::new (receipt.rs 39-53)
FillReceiptNew(quote, constraints, attempt, result) ==
    [quote |-> quote, constraints |-> constraints, fill_attempt |-> attempt, result |-> result]

Idle == [pc |-> "idle"]

Init ==
    /\ LifeIdle
    /\ evalIn = None
    /\ evalStep = 0
    /\ evalWall = 0
    /\ evalOut = <<>>
    /\ lawOut = NotRun
    /\ twinIn = None
    /\ elf = ElfStart

\* The clock moves on.
Tick ==
    /\ now < MaxTime
    /\ now' = now + 1
    /\ UNCHANGED <<quotes, receipts, fill, lister, observed, nfills>>

\* create_quote (main.rs 309-360): a fresh id, the compiled guardrails, Active.
CreateQuote(id, c, maker) ==
    /\ quotes[id].status = "Absent"
    /\ \A j \in QuoteIds : j < id => quotes[j].status # "Absent"
    /\ quotes' = StoreInsert([id |-> id, spec |-> CompiledSpec, constraints |-> c,
                              status |-> "Active", expires_at |-> ExpiryDatetime(c),
                              maker_owner_id |-> maker])
    /\ UNCHANGED <<now, receipts, fill, lister, observed, nfills>>

\* get_quote (main.rs 296-306): the stored quote as an ApiQuote, or 404.
\* `late` records whether the clock had reached expires_at at the read.
GetQuote(id) ==
    /\ observed' = IF StoreGet(id).status = "Absent" THEN [id |-> id, status |-> "404", late |-> FALSE]
                   ELSE [id |-> id, status |-> StatusToString(StoreGet(id).status),
                         late |-> IsExpired(StoreGet(id), now)]
    /\ UNCHANGED <<now, quotes, receipts, fill, lister, nfills>>

\* list_quotes (main.rs 279-293), first await: the snapshot of all quotes.
ListGetAll ==
    /\ lister.pc = "idle"
    /\ lister' = [pc |-> "loop", snap |-> [id \in GetAllQuotes |-> quotes[id]],
                  todo |-> GetAllQuotes]
    /\ UNCHANGED <<now, quotes, receipts, fill, observed, nfills>>

\* list_quotes, one turn of the loop: an Active snapshot entry found expired is
\* set to Expired and written back whole.
ListStep(id) ==
    /\ lister.pc = "loop"
    /\ id \in lister.todo
    /\ IF lister.snap[id].status = "Active" /\ IsExpired(lister.snap[id], now)
       THEN LET q == [lister.snap[id] EXCEPT !.status = "Expired"]
            IN  /\ lister' = [lister EXCEPT !.snap[id] = q, !.todo = @ \ {id}]
                /\ quotes' = StoreInsert(q)
       ELSE /\ lister' = [lister EXCEPT !.todo = @ \ {id}]
            /\ UNCHANGED quotes
    /\ UNCHANGED <<now, receipts, fill, observed, nfills>>

\* list_quotes, the response: the snapshot as modified by the loop.
ListRespond ==
    /\ lister.pc = "loop"
    /\ lister.todo = {}
    /\ lister' = Idle
    /\ UNCHANGED <<now, quotes, receipts, fill, observed, nfills>>

\* fill_quote (main.rs 363-379): the request arrives and the quote is read;
\* an unknown id is answered 404.
FillGet(p, id, req) ==
    /\ fill[p].pc = "idle"
    /\ nfills < MaxFills
    /\ nfills' = nfills + 1
    /\ IF StoreGet(id).status = "Absent"
       THEN fill' = fill
       ELSE fill' = [fill EXCEPT ![p] = [pc |-> "check", fill_id |-> nfills + 1, id |-> id,
                                         request |-> req, quote |-> StoreGet(id)]]
    /\ UNCHANGED <<now, quotes, receipts, lister, observed>>

\* fill_quote (main.rs 382): quote.is_active() on the local copy.
FillCheckActive(p) ==
    /\ fill[p].pc = "check"
    /\ fill' = [fill EXCEPT ![p].pc = IF IsActive(fill[p].quote, now)
                                      THEN "validate" ELSE "inactive"]
    /\ UNCHANGED <<now, quotes, receipts, lister, observed, nfills>>

FillAttempt(f) ==
    [id |-> f.fill_id, quote_id |-> f.id, taker_owner_id |-> f.request.taker_owner_id,
     size |-> f.request.size, price |-> f.request.price,
     feed_evidence |-> f.request.feed_evidence]

\* fill_quote (main.rs 383-413): the rejection of a fill of an inactive quote.
FillRejectInactive(p) ==
    /\ fill[p].pc = "inactive"
    /\ LET f == fill[p]
           reason == IF IsExpired(f.quote, now)
                     THEN Reject("QuoteExpired", <<f.quote.expires_at, now>>)
                     ELSE Reject("AlreadyFilled", <<now>>)
       IN  fill' = [fill EXCEPT ![p] =
                 [pc |-> "receipt", id |-> f.id, validated |-> FALSE,
                  receipt |-> FillReceiptNew(f.quote, f.quote.constraints, FillAttempt(f),
                                             [status |-> "Rejected", reason |-> reason])]]
    /\ UNCHANGED <<now, quotes, receipts, lister, observed, nfills>>

\* The RfqLocalLawsInput built by fill_quote (main.rs 432-442) at clock reading t.
LocalLawsInput(f, t) ==
    [ constraints |-> f.quote.constraints,
      taker_owner_id |-> f.request.taker_owner_id,
      fill_size |-> AsU64(f.request.size * PlanckScale),
      fill_price |-> AsU64(f.request.price * f.request.size * PlanckScale),
      feed_evidence |-> f.request.feed_evidence,
      current_timestamp |-> Timestamp(t),
      transfer_leg_count |-> 2,
      has_extra_transfers |-> FALSE ]

\* The settlement with the two sides of the trade exchanged.
SettlementDetailsSwapped(input, quote) ==
    [ maker_debit |-> input.fill_size, maker_credit |-> input.fill_price,
      taker_debit |-> input.fill_price, taker_credit |-> input.fill_size,
      asset |-> quote.spec.asset, currency |-> quote.spec.currency ]

SettlementDetails(input, quote) ==
    [ maker_debit |-> input.fill_price, maker_credit |-> input.fill_size,
      taker_debit |-> input.fill_size, taker_credit |-> input.fill_price,
      asset |-> quote.spec.asset, currency |-> quote.spec.currency ]

\* fill_quote taking the Ok arm whatever validate_fill returned.
FillValidateIgnoringResult(p) ==
    /\ fill[p].pc = "validate"
    /\ LET f      == fill[p]
           input  == LocalLawsInput(f, now)
       IN  fill' = [fill EXCEPT ![p] =
                 [pc |-> "update", fill_id |-> f.fill_id, id |-> f.id, request |-> f.request,
                  quote |-> [f.quote EXCEPT !.status = "Filled"], input |-> input]]
    /\ UNCHANGED <<now, quotes, receipts, lister, observed, nfills>>

\* fill_quote marking the stored quote Expired when validate_fill finds it expired.
FillValidateExpiring(p) ==
    /\ fill[p].pc = "validate"
    /\ LET f      == fill[p]
           input  == LocalLawsInput(f, now)
           result == ValidateFill(input, now)
       IN  IF result = Ok
           THEN /\ fill' = [fill EXCEPT ![p] =
                     [pc |-> "update", fill_id |-> f.fill_id, id |-> f.id, request |-> f.request,
                      quote |-> [f.quote EXCEPT !.status = "Filled"], input |-> input]]
                /\ UNCHANGED quotes
           ELSE /\ fill' = [fill EXCEPT ![p] =
                     [pc |-> "receipt", id |-> f.id, validated |-> TRUE,
                      receipt |-> FillReceiptNew(f.quote, f.quote.constraints, FillAttempt(f),
                                                 [status |-> "Rejected", reason |-> result])]]
                /\ quotes' = IF result.code = "QuoteExpired"
                             THEN StoreInsert([f.quote EXCEPT !.status = "Expired"])
                             ELSE quotes
    /\ UNCHANGED <<now, receipts, lister, observed, nfills>>

\* fill_quote (main.rs 420-449, 477-488): the clock is read, the input built and
\* validate_fill called.  On Ok the local copy is marked Filled; on Err the
\* Rejected receipt is built.
FillValidate(p) ==
    /\ fill[p].pc = "validate"
    /\ LET f      == fill[p]
           input  == LocalLawsInput(f, now)
           result == ValidateFill(input, now)
       IN  IF result = Ok
           THEN fill' = [fill EXCEPT ![p] =
                     [pc |-> "update", fill_id |-> f.fill_id, id |-> f.id, request |-> f.request,
                      quote |-> [f.quote EXCEPT !.status = "Filled"], input |-> input]]
           ELSE fill' = [fill EXCEPT ![p] =
                     [pc |-> "receipt", id |-> f.id, validated |-> TRUE,
                      receipt |-> FillReceiptNew(f.quote, f.quote.constraints, FillAttempt(f),
                                                 [status |-> "Rejected", reason |-> result])]]
    /\ UNCHANGED <<now, quotes, receipts, lister, observed, nfills>>

\* update_quote writing the quote back with its nonce advanced.
FillUpdateQuoteNewNonce(p) ==
    /\ fill[p].pc = "update"
    /\ quotes' = StoreInsert([fill[p].quote EXCEPT !.constraints.nonce = @ + 1])
    /\ fill' = [fill EXCEPT ![p].pc = "submit"]
    /\ UNCHANGED <<now, receipts, lister, observed, nfills>>

\* fill_quote going on to the settlement without the update_quote call.
FillUpdateQuoteSkipped(p) ==
    /\ fill[p].pc = "update"
    /\ fill' = [fill EXCEPT ![p].pc = "submit"]
    /\ UNCHANGED <<now, quotes, receipts, lister, observed, nfills>>

\* fill_quote (main.rs 450): update_quote writes the local copy back whole.
FillUpdateQuote(p) ==
    /\ fill[p].pc = "update"
    /\ quotes' = StoreInsert(fill[p].quote)
    /\ fill' = [fill EXCEPT ![p].pc = "submit"]
    /\ UNCHANGED <<now, receipts, lister, observed, nfills>>

\* fill_quote undoing the fill when the settlement pipeline reports an error.
FillSubmitReverting(p, sdl_hash) ==
    /\ fill[p].pc = "submit"
    /\ LET f == fill[p]
           failed == sdl_hash # "sdl_hash"
           result == IF failed
                     THEN [status |-> "Rejected", reason |-> Reject("ValidationError", <<sdl_hash>>)]
                     ELSE [status |-> "Accepted", sdl_hash |-> sdl_hash,
                           settlement |-> SettlementDetails(f.input, f.quote)]
       IN  /\ fill' = [fill EXCEPT ![p] =
                 [pc |-> "receipt", id |-> f.id, validated |-> TRUE,
                  receipt |-> FillReceiptNew(f.quote, f.quote.constraints, FillAttempt(f), result)]]
           /\ quotes' = IF failed THEN StoreInsert([f.quote EXCEPT !.status = "Active"])
                        ELSE quotes
    /\ UNCHANGED <<now, receipts, lister, observed, nfills>>

\* fill_quote (main.rs 452-488): submit_fill_to_delta returns, whatever became of
\* the settlement, and the Accepted receipt is built.
FillSubmit(p, sdl_hash) ==
    /\ fill[p].pc = "submit"
    /\ LET f == fill[p]
       IN  fill' = [fill EXCEPT ![p] =
                 [pc |-> "receipt", id |-> f.id, validated |-> TRUE,
                  receipt |-> FillReceiptNew(f.quote, f.quote.constraints, FillAttempt(f),
                                 [status |-> "Accepted", sdl_hash |-> sdl_hash,
                                  settlement |-> SettlementDetails(f.input, f.quote)])]]
    /\ UNCHANGED <<now, quotes, receipts, lister, observed, nfills>>

\* fill_quote (main.rs 415, 490): add_receipt, and the handler returns.
FillAddReceipt(p) ==
    /\ fill[p].pc = "receipt"
    /\ receipts' = StorePush(fill[p].id, fill[p].receipt)
    /\ fill' = [fill EXCEPT ![p] = Idle]
    /\ UNCHANGED <<now, quotes, lister, observed, nfills>>

Next ==
    \/ Tick /\ UNCHANGED evalVars
    \/ \E id \in QuoteIds, c \in CompiledConstraints, m \in Makers :
          CreateQuote(id, c, m) /\ UNCHANGED evalVars
    \/ \E id \in QuoteIds : GetQuote(id) /\ UNCHANGED evalVars
    \/ ListGetAll /\ UNCHANGED evalVars
    \/ \E id \in QuoteIds : ListStep(id) /\ UNCHANGED evalVars
    \/ ListRespond /\ UNCHANGED evalVars
    \/ \E p \in Fillers, id \in QuoteIds, req \in FillRequests :
          FillGet(p, id, req) /\ UNCHANGED evalVars
    \/ \E p \in Fillers : FillCheckActive(p) /\ UNCHANGED evalVars
    \/ \E p \in Fillers : FillRejectInactive(p) /\ UNCHANGED evalVars
    \/ \E p \in Fillers : FillValidate(p) /\ UNCHANGED evalVars
    \/ \E p \in Fillers : FillUpdateQuote(p) /\ UNCHANGED evalVars
    \/ \E p \in Fillers, h \in SubmitOutcomes : FillSubmit(p, h) /\ UNCHANGED evalVars
    \/ \E p \in Fillers : FillAddReceipt(p) /\ UNCHANGED evalVars

Spec == Init /\ [][Next]_vars

\* The steps of one fill_quote handler once it has read its quote.  The
\* runtime keeps polling a spawned handler, and each of its awaits returns.
FillStep(p) ==
    \/ FillCheckActive(p)
    \/ FillRejectInactive(p)
    \/ FillValidate(p)
    \/ FillUpdateQuote(p)
    \/ \E h \in SubmitOutcomes : FillSubmit(p, h)
    \/ FillAddReceipt(p)

(***************************************************************************)
(* Two offers, each attempted by a fill_quote handler of its own: handler  *)
(* p fills offer p, once the offer exists, and the two handlers interleave *)
(* freely with each other and with the clock.                              *)
(***************************************************************************)
InitPair ==
    /\ now = 0
    /\ quotes = [id \in Fillers |-> NoQuote]
    /\ receipts = [id \in Fillers |-> <<>>]
    /\ fill = [p \in Fillers |-> Idle]
    /\ lister = Idle
    /\ observed = [id |-> 0, status |-> "none", late |-> FALSE]
    /\ nfills = 0
    /\ evalIn = None
    /\ evalStep = 0
    /\ evalWall = 0
    /\ evalOut = <<>>
    /\ lawOut = NotRun
    /\ twinIn = None
    /\ elf = ElfStart

\* The one fill request handler p receives for its offer.
PairFillGet(p, req) ==
    /\ receipts[p] = <<>>
    /\ FillGet(p, p, req)

NextPair ==
    \/ Tick /\ UNCHANGED evalVars
    \/ \E id \in QuoteIds, c \in CompiledConstraints, m \in Makers :
          CreateQuote(id, c, m) /\ UNCHANGED evalVars
    \/ \E p \in Fillers, req \in FillRequests : PairFillGet(p, req) /\ UNCHANGED evalVars
    \/ \E p \in Fillers : FillCheckActive(p) /\ UNCHANGED evalVars
    \/ \E p \in Fillers : FillRejectInactive(p) /\ UNCHANGED evalVars
    \/ \E p \in Fillers : FillValidate(p) /\ UNCHANGED evalVars
    \/ \E p \in Fillers : FillUpdateQuote(p) /\ UNCHANGED evalVars
    \/ \E p \in Fillers, h \in SubmitOutcomes : FillSubmit(p, h) /\ UNCHANGED evalVars
    \/ \E p \in Fillers : FillAddReceipt(p) /\ UNCHANGED evalVars

SpecPair == InitPair /\ [][NextPair]_vars

\* The same handlers, each one scheduled until it returns.
SpecPairLive == SpecPair /\ \A p \in Fillers : WF_vars(FillStep(p) /\ UNCHANGED evalVars)

(***************************************************************************)
(* The checks of section 4.1, stated on the input alone.                   *)
(***************************************************************************)
ExpiryFails(input) == input.current_timestamp > input.constraints.expiry_timestamp

TakerFails(input) ==
    /\ input.constraints.allowed_takers # <<>>
    /\ \A i \in DOMAIN input.constraints.allowed_takers :
          input.constraints.allowed_takers[i] # input.taker_owner_id

SizeFails(input) == input.fill_size > input.constraints.max_fill_size

DebitFails(input) == input.fill_price > input.constraints.max_debit

CountFails(input) == Len(input.feed_evidence) < input.constraints.quorum_count

SourceFails(input, i) ==
    /\ input.constraints.allowed_sources # <<>>
    /\ \A k \in DOMAIN input.constraints.allowed_sources :
          input.constraints.allowed_sources[k] # input.feed_evidence[i].source

AgeOf(input, i) ==
    IF input.feed_evidence[i].timestamp > input.current_timestamp THEN 0
    ELSE input.current_timestamp - input.feed_evidence[i].timestamp

StaleFails(input, i) == AgeOf(input, i) > input.constraints.max_staleness_secs

PriceSet(input) == { input.feed_evidence[i].price : i \in DOMAIN input.feed_evidence }
LeastPrice(input) == CHOOSE p \in PriceSet(input) : \A q \in PriceSet(input) : p <= q
GreatestPrice(input) == CHOOSE p \in PriceSet(input) : \A q \in PriceSet(input) : p >= q

SpreadFails(input) ==
    /\ Len(input.feed_evidence) >= 2
    /\ LeastPrice(input) > 0
    /\ F64SpreadGt(GreatestPrice(input), LeastPrice(input),
                   input.constraints.quorum_tolerance_percent)

ShapeFails(input) ==
    input.constraints.require_atomic_dvp /\ input.transfer_leg_count # 2

SidePaymentFails(input) ==
    input.constraints.no_side_payments /\ input.has_extra_transfers

\* The checks in the fixed order, each with the rejection it stands for:
\* the variant and what tells two rejections of that variant apart.
OrderedChecks(input) ==
    LET ev == input.feed_evidence
        perAtt(i) == << [bad |-> SourceFails(input, i),
                         kind |-> <<"UnauthorizedSource", ev[i].source>>],
                        [bad |-> StaleFails(input, i),
                         kind |-> <<"StaleFeed", ev[i].source, ev[i].timestamp>>] >>
        atts == [k \in 1..(2 * Len(ev)) |-> perAtt((k + 1) \div 2)[2 - (k % 2)]]
    IN  << [bad |-> ExpiryFails(input), kind |-> <<"QuoteExpired">>],
           [bad |-> TakerFails(input),  kind |-> <<"UnauthorizedTaker">>],
           [bad |-> SizeFails(input),   kind |-> <<"SizeExceedsMax">>],
           [bad |-> DebitFails(input),  kind |-> <<"PriceExceedsLimit">>],
           [bad |-> CountFails(input),  kind |-> <<"QuorumNotMet", "count">>] >>
        \o atts \o
        << [bad |-> SpreadFails(input), kind |-> <<"QuorumNotMet", "spread">>],
           [bad |-> ShapeFails(input),  kind |-> <<"InvalidTransferPattern">>],
           [bad |-> SidePaymentFails(input), kind |-> <<"SidePaymentDetected">>] >>

Failing(checks) == { k \in DOMAIN checks : checks[k].bad }

Earliest(ks) == CHOOSE k \in ks : \A j \in ks : k <= j

\* What a returned rejection names.
KindOf(r) ==
    IF r.code = "UnauthorizedSource" THEN <<r.code, r.detail[1]>>
    ELSE IF r.code = "StaleFeed" THEN <<r.code, r.detail[1], r.detail[2]>>
    ELSE IF r.code = "QuorumNotMet"
         THEN <<r.code, IF r.detail[3] = NoSpread THEN "count" ELSE "spread">>
    ELSE <<r.code>>

\* C3 (order invariant): whenever the evaluated input violates at least one
\* check, validate_fill returns the rejection of the earliest violated check in
\* the order expiry, taker, size, debit, quorum count, attestations in turn
\* (source before staleness), spread, settlement shape, side payment.
C3_OrderInvariant ==
    evalStep = 1 =>
        LET checks == OrderedChecks(evalIn)
            bad    == Failing(checks)
        IN  bad # {} => KindOf(evalOut[1]) = checks[Earliest(bad)].kind

\* An expired offer with an oversized fill was evaluated and reported as expired,
\* and an oversized fill over the debit bound was reported as SizeExceedsMax.
C3_Witness ==
    /\ evalStep = 1
    /\ \/ ExpiryFails(evalIn) /\ SizeFails(evalIn) /\ evalOut[1].code = "QuoteExpired"
       \/ SizeFails(evalIn) /\ DebitFails(evalIn) /\ evalOut[1].code = "SizeExceedsMax"

AllChecksPass(input) ==
    LET c == input.constraints
    IN  /\ input.current_timestamp <= c.expiry_timestamp
        /\ (c.allowed_takers = <<>> \/
            \E i \in DOMAIN c.allowed_takers : c.allowed_takers[i] = input.taker_owner_id)
        /\ input.fill_size <= c.max_fill_size
        /\ input.fill_price <= c.max_debit
        /\ Len(input.feed_evidence) >= c.quorum_count
        /\ \A i \in DOMAIN input.feed_evidence :
              ~SourceFails(input, i) /\ AgeOf(input, i) <= c.max_staleness_secs
        /\ ~SpreadFails(input)
        /\ (c.require_atomic_dvp => input.transfer_leg_count = 2)
        /\ (c.no_side_payments => ~input.has_extra_transfers)

RejectionCodes ==
    { "QuoteExpired", "UnauthorizedTaker", "SizeExceedsMax", "PriceExceedsLimit",
      "QuorumNotMet", "UnauthorizedSource", "StaleFeed", "InvalidTransferPattern",
      "SidePaymentDetected" }

\* C4 (Ok exactly when all seven checks pass; total): for every evaluated input
\* validate_fill returns Ok or one rejection, and it returns Ok if and only if
\* the expiry, taker, size, debit, feed-evidence, settlement-shape and
\* side-payment conditions all hold of the input.
C4_OkIffAllPass ==
    evalStep = 1 =>
        /\ evalOut[1] = Ok \/ evalOut[1].code \in RejectionCodes
        /\ (evalOut[1] = Ok) <=> AllChecksPass(evalIn)

\* An input on which every guardrail is in force was evaluated and accepted.
C4_Witness ==
    /\ evalStep = 1
    /\ evalOut[1] = Ok
    /\ evalIn.constraints.allowed_takers # <<>>
    /\ evalIn.constraints.allowed_sources # <<>>
    /\ evalIn.constraints.quorum_count = 2
    /\ evalIn.constraints.require_atomic_dvp
    /\ evalIn.constraints.no_side_payments
    /\ PriceSet(evalIn) = {107, 108}

\* C5 (determinism): two evaluations of validate_fill on the same input, made at
\* different instants of the host's clock, return the identical result,
\* diagnostic fields included.
C5_Determinism ==
    evalStep = 2 => evalOut[1] = evalOut[2]

\* The check at which each implementation stops (0 = none, the fill is valid).
CheckOfReason(r) ==
    CASE r.code = "Ok" -> 0
      [] r.code = "QuoteExpired" -> 1
      [] r.code = "UnauthorizedTaker" -> 2
      [] r.code = "SizeExceedsMax" -> 3
      [] r.code = "PriceExceedsLimit" -> 4
      [] r.code = "QuorumNotMet" /\ r.detail[3] = NoSpread -> 5
      [] r.code = "UnauthorizedSource" -> 6
      [] r.code = "StaleFeed" -> 7
      [] r.code = "QuorumNotMet" /\ r.detail[3] # NoSpread -> 8
      [] r.code = "InvalidTransferPattern" -> 9
      [] r.code = "SidePaymentDetected" -> 10

CheckOfMessage(e) ==
    CASE e.code = "Ok" -> 0
      [] e.code # "Ok" /\ e.detail[1] = "Quote expired at timestamp" -> 1
      [] e.code # "Ok" /\ e.detail[1] = "Taker not in allowlist" -> 2
      [] e.code # "Ok" /\ e.detail[1] = "Fill size exceeds max" -> 3
      [] e.code # "Ok" /\ e.detail[1] = "Fill price exceeds max debit" -> 4
      [] e.code # "Ok" /\ e.detail[1] = "Quorum not met" -> 5
      [] e.code # "Ok" /\ e.detail[1] = "Source not in allowlist" -> 6
      [] e.code # "Ok" /\ e.detail[1] = "Feed data is stale" -> 7
      [] e.code # "Ok" /\ e.detail[1] = "Price spread exceeds tolerance" -> 8
      [] e.code # "Ok" /\ e.detail[1] = "Atomic DvP required" -> 9
      [] e.code # "Ok" /\ e.detail[1] = "Side-payments detected" -> 10

\* The attestation a feed rejection names (its source), none otherwise.
SourceOfReason(r) ==
    IF r.code \in {"UnauthorizedSource", "StaleFeed"} THEN r.detail[1] ELSE None
SourceOfMessage(e) ==
    IF e.code # "Ok" /\ e.detail[1] \in {"Source not in allowlist", "Feed data is stale"}
    THEN e.detail[2] ELSE None

\* C6 (dual-runtime agreement): on every input RfqLocalLaws::validate and
\* validate_fill both accept or both reject, and when they reject they stop at
\* the same check, naming the same attestation.
C6_DualRuntimeAgreement ==
    evalStep = 3 =>
        /\ (lawOut = LawsOk) <=> (evalOut[1] = Ok)
        /\ CheckOfMessage(lawOut) = CheckOfReason(evalOut[1])
        /\ SourceOfMessage(lawOut) = SourceOfReason(evalOut[1])

\* Both implementations rejected an input at the settlement-shape check, and
\* both accepted another.
C6_Witness ==
    /\ evalStep = 3
    /\ evalOut[1].code = "InvalidTransferPattern"
    /\ CheckOfMessage(lawOut) = 9

(***************************************************************************)
(* The lifecycle claims.                                                   *)
(***************************************************************************)
Accepted(id) == { i \in DOMAIN receipts[id] : receipts[id][i].result.status = "Accepted" }

\* C1 (at-most-one-fill): whatever the interleaving of the fill attempts on an
\* offer, the receipts stored for it never hold two Accepted receipts.
C1_AtMostOneFill ==
    \A id \in QuoteIds : Cardinality(Accepted(id)) <= 1

Terminal == {"Filled", "Expired", "Cancelled"}

\* C2 (terminal statuses): once the stored status of an offer is Filled, Expired
\* or Cancelled, no step of any handler changes it.
C2_TerminalStatuses ==
    [][\A id \in QuoteIds :
          quotes[id].status \in Terminal => quotes'[id].status = quotes[id].status]_vars

\* C7 (fill of an inactive offer): a fill attempt that found the offer inactive
\* never went through validate_fill, and its receipt is Rejected, with the expiry
\* rejection when the offer it read was not Filled and with AlreadyFilled when
\* the offer it read was Filled.
C7_InactiveRejection ==
    \A p \in Fillers :
        (fill[p].pc = "receipt" /\ ~fill[p].validated) =>
            LET r == fill[p].receipt
            IN  /\ r.result.status = "Rejected"
                /\ r.quote.status = "Filled" => r.result.reason.code = "AlreadyFilled"
                /\ r.quote.status # "Filled" => r.result.reason.code = "QuoteExpired"

\* C8 (only a validated fill writes Filled): every step that makes the stored
\* status of an offer Filled is the update_quote of a fill attempt on that offer
\* whose input, built on the offer's stored constraints, validate_fill accepts.
C8_FilledOnlyByValidFill ==
    [][\A id \in QuoteIds :
          (quotes[id].status # "Filled" /\ quotes'[id].status = "Filled") =>
              \E p \in Fillers :
                  /\ fill[p].pc = "update" /\ fill'[p].pc = "submit"
                  /\ fill[p].id = id
                  /\ fill[p].input.constraints = quotes[id].constraints
                  /\ ValidateFill(fill[p].input, now) = Ok]_vars

\* A fill attempt has just marked an Active offer Filled.
C8_Witness ==
    \E p \in Fillers :
        /\ fill[p].pc = "submit"
        /\ quotes[fill[p].id].status = "Filled"
        /\ receipts[fill[p].id] = <<>>

\* The steps that read the stored offer id: get_quote, one turn of the
\* list_quotes loop, and the read that opens a fill attempt.
IsGetQuoteOf(id) == observed' # observed /\ observed'.id = id
IsListTurnOf(id) ==
    lister.pc = "loop" /\ lister'.pc = "loop" /\ id \in lister.todo /\ id \notin lister'.todo
IsFillReadOf(id) ==
    \E p \in Fillers : fill[p].pc = "idle" /\ fill'[p].pc = "check" /\ fill'[p].id = id

ExpiredUnpromoted(q) == q.status = "Active" /\ now >= q.expires_at

\* C9 (lazy expiry on every read): every read of an offer stored as
\* Active at a time now >= expires_at leaves the stored status Expired.
C9_LazyExpiryOnEveryRead ==
    [][\A id \in QuoteIds :
          ((IsGetQuoteOf(id) \/ IsListTurnOf(id) \/ IsFillReadOf(id))
              /\ ExpiredUnpromoted(quotes[id]))
          => quotes'[id].status = "Expired"]_vars

FillIdsOf(id) == [i \in DOMAIN receipts[id] |-> receipts[id][i].fill_attempt.id]

\* C10 (receipts are append-only): the only step that changes an offer's receipt
\* list is the add_receipt of a fill attempt on that offer, which appends its one
\* receipt and keeps every earlier receipt in place; every fill attempt that
\* found its offer ends with that step; and no attempt has two receipts.
C10_ReceiptsAppendOnly ==
    /\ [](\A id \in QuoteIds : \A i, j \in DOMAIN receipts[id] :
              FillIdsOf(id)[i] = FillIdsOf(id)[j] => i = j)
    /\ [][/\ \A id \in QuoteIds :
                receipts'[id] # receipts[id] =>
                    \E p \in Fillers :
                        /\ fill[p].pc = "receipt" /\ fill'[p].pc = "idle"
                        /\ fill[p].id = id
                        /\ receipts'[id] = receipts[id] \o <<fill[p].receipt>>
          /\ \A p \in Fillers :
                (fill[p].pc # "idle" /\ fill'[p].pc = "idle") =>
                    /\ fill[p].pc = "receipt"
                    /\ Len(receipts'[fill[p].id]) = Len(receipts[fill[p].id]) + 1]_vars

\* An offer has gathered the receipts of two attempts, the accepted one first.
C10_Witness ==
    \E id \in QuoteIds :
        /\ Len(receipts[id]) = 2
        /\ receipts[id][1].result.status = "Accepted"
        /\ receipts[id][2].result.status = "Rejected"

(***************************************************************************)
(* The claims about the single checks of validate_fill.                    *)
(***************************************************************************)
\* What has to pass for validate_fill to arrive at a given check.
ReachesSize(input) == ~ExpiryFails(input) /\ ~TakerFails(input)
ReachesDebit(input) == ReachesSize(input) /\ ~SizeFails(input)
ReachesFeed(input) == ReachesDebit(input) /\ ~DebitFails(input)
ReachesSource(input, i) ==
    /\ ReachesFeed(input) /\ ~CountFails(input)
    /\ \A j \in 1..(i - 1) : ~SourceFails(input, j) /\ ~StaleFails(input, j)
ReachesFreshness(input, i) == ReachesSource(input, i) /\ ~SourceFails(input, i)
ReachesSpread(input) ==
    /\ ReachesFeed(input) /\ ~CountFails(input)
    /\ \A j \in DOMAIN input.feed_evidence : ~SourceFails(input, j) /\ ~StaleFails(input, j)
ReachesShape(input) == ReachesSpread(input) /\ ~SpreadFails(input)
ReachesSidePayment(input) == ReachesShape(input) /\ ~ShapeFails(input)

\* C11 (expiry boundary): validate_fill returns the expiry rejection if and only
\* if the carried evaluation time is strictly greater than expiry_timestamp; at
\* expiry_timestamp itself the expiry check passes, one second later it fails.
C11_ExpiryBoundary ==
    evalStep = 1 =>
        LET t == evalIn.current_timestamp
            e == evalIn.constraints.expiry_timestamp
        IN  /\ (evalOut[1].code = "QuoteExpired") <=> (t > e)
            /\ t = e => evalOut[1].code # "QuoteExpired"
            /\ t = e + 1 => evalOut[1].code = "QuoteExpired"

\* A fill evaluated exactly at the expiry timestamp was accepted.
C11_Witness ==
    /\ evalStep = 1
    /\ evalIn.current_timestamp = evalIn.constraints.expiry_timestamp
    /\ evalOut[1] = Ok

\* C12 (debit boundary): when the expiry, taker and size checks pass,
\* validate_fill returns PriceExceedsLimit if and only if fill_price > max_debit;
\* fill_price = max_debit passes, fill_price = max_debit + 1 is rejected.
C12_DebitBoundary ==
    (evalStep = 1 /\ ReachesDebit(evalIn)) =>
        LET p == evalIn.fill_price
            m == evalIn.constraints.max_debit
        IN  /\ (evalOut[1].code = "PriceExceedsLimit") <=> (p > m)
            /\ p = m => evalOut[1].code # "PriceExceedsLimit"
            /\ p = m + 1 => evalOut[1] = Reject("PriceExceedsLimit", <<p, m>>)

\* A fill priced exactly at max_debit was accepted.
C12_Witness ==
    /\ evalStep = 1
    /\ evalIn.fill_price = evalIn.constraints.max_debit
    /\ evalOut[1] = Ok

StaleKind(input, i) ==
    <<"StaleFeed", input.feed_evidence[i].source, input.feed_evidence[i].timestamp>>

\* C13 (staleness): an attestation whose freshness test is reached is rejected
\* with StaleFeed if and only if its age, the saturating difference of the
\* evaluation time and its timestamp, is strictly greater than
\* max_staleness_secs; an age equal to the bound passes, a future-dated
\* attestation has age 0 and is never the one reported stale, and every
\* StaleFeed returned names an attestation older than the bound.
C13_Staleness ==
    evalStep = 1 =>
        LET ev == evalIn.feed_evidence
            m  == evalIn.constraints.max_staleness_secs
        IN  /\ \A i \in DOMAIN ev :
                  ReachesFreshness(evalIn, i) =>
                      /\ (KindOf(evalOut[1]) = StaleKind(evalIn, i)) <=> (AgeOf(evalIn, i) > m)
                      /\ ev[i].timestamp >= evalIn.current_timestamp - m
                            => KindOf(evalOut[1]) # StaleKind(evalIn, i)
            /\ evalOut[1].code = "StaleFeed" =>
                  \E i \in DOMAIN ev :
                      /\ KindOf(evalOut[1]) = StaleKind(evalIn, i)
                      /\ evalIn.current_timestamp - ev[i].timestamp > m

\* A fill carrying one attestation dated in the future and one whose age equals
\* max_staleness_secs was accepted.
C13_Witness ==
    /\ evalStep = 1
    /\ evalOut[1] = Ok
    /\ \E i, j \in DOMAIN evalIn.feed_evidence :
          /\ evalIn.feed_evidence[i].timestamp > evalIn.current_timestamp
          /\ evalIn.current_timestamp - evalIn.feed_evidence[j].timestamp
                = evalIn.constraints.max_staleness_secs

\* C14 (source allowlist): with allowed_sources non-empty, a fill that passes
\* every check ordered before the source test of an attestation whose source is
\* not listed is rejected with UnauthorizedSource naming that source, and a fill
\* that passes the checks before the feed evidence and carries any unlisted
\* attestation is never accepted; with allowed_sources empty, no result is
\* UnauthorizedSource.
C14_SourceAllowlist ==
    evalStep = 1 =>
        LET ev == evalIn.feed_evidence
            c  == evalIn.constraints
        IN  /\ \A i \in DOMAIN ev :
                  (ReachesSource(evalIn, i) /\ SourceFails(evalIn, i)) =>
                      evalOut[1] = Reject("UnauthorizedSource", <<ev[i].source, c.allowed_sources>>)
            /\ (ReachesFeed(evalIn) /\ \E i \in DOMAIN ev : SourceFails(evalIn, i))
                  => evalOut[1] # Ok
            /\ c.allowed_sources = <<>> => evalOut[1].code # "UnauthorizedSource"
            /\ evalOut[1].code = "UnauthorizedSource" =>
                  \E i \in DOMAIN ev : SourceFails(evalIn, i) /\ ev[i].source = evalOut[1].detail[1]

\* A fill with a listed, fresh attestation followed by one from FeedMallory was
\* rejected as UnauthorizedSource naming FeedMallory.
C14_Witness ==
    /\ evalStep = 1
    /\ Len(evalIn.feed_evidence) = 2
    /\ evalIn.feed_evidence[1].source = "FeedA"
    /\ evalIn.feed_evidence[2].source = "FeedMallory"
    /\ evalOut[1].code = "UnauthorizedSource"
    /\ evalOut[1].detail[1] = "FeedMallory"

FeedCodes == {"QuorumNotMet", "UnauthorizedSource", "StaleFeed"}

\* C15 (quorum count): when the checks before the feed evidence pass and fewer
\* than quorum_count attestations are supplied, validate_fill returns QuorumNotMet
\* without a spread, whatever the sources and timestamps of the attestations;
\* with exactly quorum_count fresh, allow-listed attestations of one price the
\* feed evidence is not rejected.
C15_QuorumCount ==
    (evalStep = 1 /\ ReachesFeed(evalIn)) =>
        LET ev == evalIn.feed_evidence
            c  == evalIn.constraints
        IN  /\ Len(ev) < c.quorum_count =>
                  evalOut[1] = Reject("QuorumNotMet",
                                      <<Len(ev), c.quorum_count, NoSpread,
                                        c.quorum_tolerance_percent>>)
            /\ KindOf(evalOut[1]) = <<"QuorumNotMet", "count">> => Len(ev) < c.quorum_count
            /\ ( /\ Len(ev) = c.quorum_count
                 /\ \A i \in DOMAIN ev : ~SourceFails(evalIn, i) /\ ~StaleFails(evalIn, i)
                 /\ Cardinality(PriceSet(evalIn)) = 1 )
                  => evalOut[1].code \notin FeedCodes

\* A fill one attestation short of the quorum, its only attestation unlisted and
\* stale, was rejected for the count.
C15_Witness ==
    /\ evalStep = 1
    /\ Len(evalIn.feed_evidence) = 1
    /\ SourceFails(evalIn, 1) /\ StaleFails(evalIn, 1)
    /\ KindOf(evalOut[1]) = <<"QuorumNotMet", "count">>

\* C16 (price spread): when the spread test is reached, validate_fill returns
\* QuorumNotMet carrying a spread if and only if at least two attestations are
\* supplied, the least price is positive and
\* (max_price - min_price) * 100 > quorum_tolerance_percent * min_price,
\* the prices ranging over all supplied attestations.
C16_SpreadExact ==
    (evalStep = 1 /\ ReachesSpread(evalIn)) =>
        ( KindOf(evalOut[1]) = <<"QuorumNotMet", "spread">>
          <=> /\ Len(evalIn.feed_evidence) >= 2
              /\ LeastPrice(evalIn) > 0
              /\ (GreatestPrice(evalIn) - LeastPrice(evalIn)) * 100
                    > evalIn.constraints.quorum_tolerance_percent * LeastPrice(evalIn) )

\* C17 (taker allowlist): for an unexpired offer validate_fill returns
\* UnauthorizedTaker if and only if allowed_takers is non-empty and does not
\* contain the taker; an empty allowed_takers admits every taker.
C17_TakerAllowlist ==
    (evalStep = 1 /\ ~ExpiryFails(evalIn)) =>
        /\ (evalOut[1].code = "UnauthorizedTaker") <=> TakerFails(evalIn)
        /\ evalIn.constraints.allowed_takers = <<>> => evalOut[1].code # "UnauthorizedTaker"

\* A taker outside a non-empty allowlist was rejected, on an input that also
\* breaks the size bound.
C17_Witness ==
    /\ evalStep = 1
    /\ evalIn.constraints.allowed_takers = <<"takerA">>
    /\ evalIn.taker_owner_id = "takerB"
    /\ SizeFails(evalIn)
    /\ evalOut[1].code = "UnauthorizedTaker"

\* C18 (size bound): when the expiry and taker checks pass, validate_fill
\* returns SizeExceedsMax if and only if fill_size > max_fill_size;
\* fill_size = max_fill_size passes the check.
C18_SizeBound ==
    (evalStep = 1 /\ ReachesSize(evalIn)) =>
        LET z == evalIn.fill_size
            m == evalIn.constraints.max_fill_size
        IN  /\ (evalOut[1].code = "SizeExceedsMax") <=> (z > m)
            /\ z = m => evalOut[1].code # "SizeExceedsMax"

\* A fill of exactly max_fill_size was accepted.
C18_Witness ==
    /\ evalStep = 1
    /\ evalIn.fill_size = evalIn.constraints.max_fill_size
    /\ evalOut[1] = Ok

\* C19 (settlement shape): when require_atomic_dvp is set and every earlier
\* check passes, validate_fill returns InvalidTransferPattern for every
\* transfer_leg_count other than 2; when require_atomic_dvp is not set, no result
\* is InvalidTransferPattern.
C19_SettlementShape ==
    evalStep = 1 =>
        /\ ( /\ ReachesShape(evalIn)
             /\ evalIn.constraints.require_atomic_dvp
             /\ evalIn.transfer_leg_count # 2 )
              => evalOut[1].code = "InvalidTransferPattern"
        /\ ~evalIn.constraints.require_atomic_dvp => evalOut[1].code # "InvalidTransferPattern"
        /\ evalIn.transfer_leg_count = 2 => evalOut[1].code # "InvalidTransferPattern"

\* A fill of a single leg was rejected for its shape.
C19_Witness ==
    /\ evalStep = 1
    /\ evalIn.transfer_leg_count = 1
    /\ evalOut[1].code = "InvalidTransferPattern"

\* C20 (side-payment check): when every earlier check passes, validate_fill
\* returns SidePaymentDetected if and only if no_side_payments and
\* has_extra_transfers are both set; and it returns SidePaymentDetected only
\* when every earlier check passes.
C20_SidePayment ==
    evalStep = 1 =>
        /\ ReachesSidePayment(evalIn) =>
              ( (evalOut[1].code = "SidePaymentDetected")
                <=> (evalIn.constraints.no_side_payments /\ evalIn.has_extra_transfers) )
        /\ evalOut[1].code = "SidePaymentDetected" => ReachesSidePayment(evalIn)

\* Extra transfers were allowed through where side payments are not forbidden,
\* on an input that passes every other check.
C20_Witness ==
    /\ evalStep = 1
    /\ ~evalIn.constraints.no_side_payments
    /\ evalIn.has_extra_transfers
    /\ evalIn.constraints.require_atomic_dvp
    /\ evalOut[1] = Ok

(***************************************************************************)
(* The claims about the sandboxed program, the quorum and the uninspected  *)
(* fields.                                                                 *)
(***************************************************************************)
\* C21 (a rejection aborts proof production): the sandboxed program commits
\* public values only on executions in which validate_fill accepted the input
\* it read; what it commits is the quote_id and then the success byte; and on
\* an input that validate_fill rejects it ends in a panic with nothing
\* committed.
C21_RejectionAbortsProof ==
    (elf.pc \notin {"read", "validate"}) =>
        /\ elf.public # <<>> => AllChecksPass(evalIn)
        /\ elf.pc = "panicked" <=> ~AllChecksPass(evalIn)
        /\ elf.pc = "panicked" => elf.public = <<>>
        /\ elf.pc = "commit_quote_id" => elf.public = <<>>
        /\ elf.pc = "commit_success" => elf.public = <<evalIn.constraints.quote_id>>
        /\ elf.pc = "done" => elf.public = <<evalIn.constraints.quote_id, 1>>

\* The program ran to its end on a valid fill and committed both values.
C21_Witness ==
    /\ elf.pc = "done"
    /\ elf.public = <<evalIn.constraints.quote_id, 1>>
    /\ evalIn.constraints.quorum_count = 2
    /\ evalIn.constraints.allowed_sources # <<>>

SourcesOf(input) == { input.feed_evidence[i].source : i \in DOMAIN input.feed_evidence }

\* C24 (quorum independence): validate_fill returns Ok only if the evidence
\* holds attestations from at least quorum_count distinct sources.
C24_QuorumIndependence ==
    (evalStep = 1 /\ evalOut[1] = Ok) =>
        Cardinality(SourcesOf(evalIn)) >= evalIn.constraints.quorum_count

SoloResult(q0, req, t1, t2, sdl_hash) ==
    LET f == [quote |-> q0, request |-> req]
    IN  IF IsActive(q0, t1)
        THEN LET input == LocalLawsInput(f, t2)
                 res   == ValidateFill(input, t2)
             IN  IF res = Ok
                 THEN [status |-> "Accepted", sdl_hash |-> sdl_hash,
                       settlement |-> SettlementDetails(input, q0)]
                 ELSE [status |-> "Rejected", reason |-> res]
        ELSE [status |-> "Rejected",
              reason |-> IF IsExpired(q0, t2)
                         THEN Reject("QuoteExpired", <<q0.expires_at, t2>>)
                         ELSE Reject("AlreadyFilled", <<t2>>)]

RequestOf(attempt) ==
    [taker_owner_id |-> attempt.taker_owner_id, size |-> attempt.size,
     price |-> attempt.price, feed_evidence |-> attempt.feed_evidence]

IsSoloOutcome(r) ==
    \E t1 \in 0..MaxTime : \E t2 \in t1..MaxTime : \E h \in SubmitOutcomes :
        LET res == SoloResult([r.quote EXCEPT !.status = "Active"],
                              RequestOf(r.fill_attempt), t1, t2, h)
        IN  /\ res.status = r.result.status
            /\ res = r.result

\* The offer a step of handler p works on.
OfferOf(p) == IF fill[p].pc = "idle" THEN fill'[p].id ELSE fill[p].id

\* C23 (independence across offers): with one fill attempt per offer, whatever
\* the interleaving, every step of the attempt on one offer leaves the stored
\* quote and the receipt list of every other offer unchanged; each offer gathers
\* at most one receipt, that of its own attempt; and the result in that receipt
\* is a result the attempt has when it runs alone.
C23_IndependentOffers ==
    /\ [](\A id \in QuoteIds :
            /\ Len(receipts[id]) <= 1
            /\ \A i \in DOMAIN receipts[id] :
                  /\ receipts[id][i].fill_attempt.quote_id = id
                  /\ IsSoloOutcome(receipts[id][i]))
    /\ [][\A p \in Fillers :
            fill'[p] # fill[p] =>
                \A b \in QuoteIds \ {OfferOf(p)} :
                    quotes'[b] = quotes[b] /\ receipts'[b] = receipts[b]]_vars

\* The attempts on the two offers both ended, one accepted and one rejected
\* for its size, while both offers were live.
C23_Witness ==
    /\ Len(receipts[1]) = 1 /\ Len(receipts[2]) = 1
    /\ receipts[1][1].result.status = "Accepted"
    /\ receipts[2][1].result.status = "Rejected"
    /\ receipts[2][1].result.reason.code = "SizeExceedsMax"
    /\ quotes[1].status = "Filled" /\ quotes[2].status = "Active"

(***************************************************************************)
(* Further claims about the lifecycle.                                     *)
(***************************************************************************)
WithoutStatus(q) == [q EXCEPT !.status = "Active"]

\* C22 (guardrails are immutable): no step changes anything of a stored offer
\* but its status: constraints, spec, expires_at, maker and id stay as created.
C22_GuardrailsImmutable ==
    [][\A id \in QuoteIds :
          quotes[id].status # "Absent" =>
              /\ quotes'[id].status # "Absent"
              /\ WithoutStatus(quotes'[id]) = WithoutStatus(quotes[id])]_vars

\* An offer whose status was written twice, Filled by a fill and then Expired
\* by list_quotes.
C22_Witness ==
    \E id \in QuoteIds :
        /\ quotes[id].status = "Expired"
        /\ Accepted(id) # {}

\* C25 (no fill at or after expiry): a fill attempt whose evaluation takes place
\* at a clock reading now >= expires_at is never accepted, so it never goes on
\* to mark the offer Filled nor to an Accepted receipt; at such a reading the
\* engine's expiry check fails, as the lifecycle's does.
C25_NoFillAtOrAfterExpiry ==
    [][\A p \in Fillers :
          (fill[p].pc = "validate" /\ fill'[p] # fill[p] /\ now >= fill[p].quote.expires_at)
              => /\ fill'[p].pc # "update"
                 /\ ExpiryFails(LocalLawsInput(fill[p], now))]_vars

\* C26 (status write precedes receipt): whenever an Accepted receipt is stored
\* for an offer, the offer's stored status is not Active; and a stored status
\* that has left Active never becomes Active again.
C26_StatusBeforeReceipt ==
    /\ [](\A id \in QuoteIds : Accepted(id) # {} => quotes[id].status \in Terminal)
    /\ [][\A id \in QuoteIds :
              quotes[id].status \in Terminal => quotes'[id].status # "Active"]_vars

\* The Accepted receipt of an offer has just been stored, the offer Filled.
C26_Witness ==
    \E id \in QuoteIds :
        /\ Len(receipts[id]) = 1
        /\ Accepted(id) = {1}
        /\ quotes[id].status = "Filled"

\* A handler that has not been accepted: before its verdict, or holding a
\* Rejected receipt.
Rejecting(f) ==
    \/ f.pc \in {"check", "inactive", "validate"}
    \/ f.pc = "receipt" /\ f.receipt.result.status = "Rejected"

\* C27 (a rejected attempt leaves the offers alone): a handler whose attempt
\* is rejected, by validate_fill or because the offer was not Active, never
\* passes through the update_quote step; none of its steps changes the offer
\* map; its last step appends its one Rejected receipt; and a fill request for
\* an unknown id changes neither offers nor receipts.
C27_RejectionWritesNothing ==
    [][/\ \A p \in Fillers :
            /\ Rejecting(fill'[p]) => (Rejecting(fill[p]) \/ fill[p].pc = "idle")
            /\ (fill'[p] # fill[p] /\ (Rejecting(fill[p]) \/ fill[p].pc = "idle"))
                  => quotes' = quotes
            /\ (Rejecting(fill[p]) /\ fill'[p] # fill[p] /\ fill[p].pc # "receipt")
                  => receipts' = receipts
            /\ (Rejecting(fill[p]) /\ fill'[p] # fill[p] /\ fill[p].pc = "receipt")
                  => receipts' = [receipts EXCEPT ![fill[p].id] = Append(@, fill[p].receipt)]
       /\ (nfills' # nfills /\ fill' = fill) => (quotes' = quotes /\ receipts' = receipts)]_vars

\* An attempt rejected by validate_fill has stored its receipt and the offer is
\* still Active.
C27_Witness ==
    \E id \in QuoteIds :
        /\ Len(receipts[id]) = 1
        /\ receipts[id][1].result.status = "Rejected"
        /\ receipts[id][1].result.reason.code = "SizeExceedsMax"
        /\ quotes[id].status = "Active"

\* C28 (settlement is balanced and bounded): in every Accepted receipt,
\* maker_debit = taker_credit = the evaluated fill_price,
\* maker_credit = taker_debit = the evaluated fill_size,
\* maker_debit <= max_debit and taker_debit <= max_fill_size.
C28_SettlementBalanced ==
    \A id \in QuoteIds : \A i \in Accepted(id) :
        LET r  == receipts[id][i]
            st == r.result.settlement
            fill_size  == AsU64(r.fill_attempt.size * PlanckScale)
            fill_price == AsU64(r.fill_attempt.price * r.fill_attempt.size * PlanckScale)
        IN  /\ st.maker_debit = fill_price /\ st.taker_credit = fill_price
            /\ st.maker_credit = fill_size /\ st.taker_debit = fill_size
            /\ st.maker_debit <= r.constraints.max_debit
            /\ st.taker_debit <= r.constraints.max_fill_size

\* An Accepted receipt whose two legs differ in amount, the debit at max_debit.
C28_Witness ==
    \E id \in QuoteIds : \E i \in Accepted(id) :
        LET st == receipts[id][i].result.settlement
        IN  /\ st.maker_debit # st.maker_credit
            /\ st.maker_debit = receipts[id][i].constraints.max_debit

====
